---- MODULE Spec2Model ----
(***************************************************************************)
(* Py2CppTransformer (ReservoirEcho/reservoircpp_cpp/py2cpp_transformer.py) *)
(* as a state machine.  The text buffer `code` is a string; every regular  *)
(* expression of the source is an operator that matches character by       *)
(* character the way Python's backtracking matcher does, and every pass is *)
(* one action (the block-synthesis loop is one action per iteration).      *)
(***************************************************************************)
EXTENDS Integers, Sequences, FiniteSets, TLC

VARIABLES
    entry,           \* the method of Py2CppTransformer that was called
    source,          \* its argument `code`, as the caller passed it
    filename,        \* the argument `filename` of transform
    pc,              \* the step that runs next
    code,            \* the local `code`: the text buffer
    appended,        \* transform_imports: `imports` when the loop ends
    imports,         \* transform_imports: `imports` after list(set(imports))
    opened,          \* headers rewritten with a trailing brace so far
    lines,           \* transform_control_structures: `lines`
    idx,             \* the position of `for line in lines`
    new_lines,       \* transform_control_structures: `new_lines`
    current_indent,  \* transform_control_structures: `current_indent`
    passes           \* the passes that have returned, in order

vars == <<entry, source, filename, pc, code, appended, imports, opened, lines,
          idx, new_lines, current_indent, passes>>

(***************************************************************************)
(* Bounds of the model.                                                    *)
(***************************************************************************)
\* the longest unit, in lines, handed to transform
MaxLines == 3
\* the longest unit, in lines, handed to transform_control_structures
MaxBlockLines == 4
\* the longest unit, in lines, handed to transform_imports
MaxImports == 2
\* the longest unit, in lines, handed to transform_functions
MaxDefs == 2

(***************************************************************************)
(* Python string primitives.                                               *)
(***************************************************************************)
NL == "\n"

\* s[i:i+1], counting from 1: the empty string outside the string
Ch(s, i) == IF i >= 1 /\ i <= Len(s) THEN SubSeq(s, i, i) ELSE ""

From(s, i) == SubSeq(s, i, Len(s))

StartsAt(s, i, lit) ==
    /\ i >= 1
    /\ i + Len(lit) - 1 <= Len(s)
    /\ SubSeq(s, i, i + Len(lit) - 1) = lit

EndsWith(s, lit) == StartsAt(s, Len(s) - Len(lit) + 1, lit)

Digits == {"0", "1", "2", "3", "4", "5", "6", "7", "8", "9"}

Lower == <<"a", "b", "c", "d", "e", "f", "g", "h", "i", "j", "k", "l", "m",
           "n", "o", "p", "q", "r", "s", "t", "u", "v", "w", "x", "y", "z">>

Upper == <<"A", "B", "C", "D", "E", "F", "G", "H", "I", "J", "K", "L", "M",
           "N", "O", "P", "Q", "R", "S", "T", "U", "V", "W", "X", "Y", "Z">>

Range(f) == {f[k] : k \in DOMAIN f}

\* \s of the re module
IsSpace(c) == c \in {" ", NL, "\t"}

WordChars == Range(Lower) \cup Range(Upper) \cup Digits \cup {"_"}

\* \w of the re module
IsWord(c) == c \in WordChars

Min(S) == CHOOSE a \in S : \A b \in S : a <= b

Max(S) == CHOOSE a \in S : \A b \in S : a >= b

\* s.find(lit, i): the first index >= i where lit starts, 0 when there is none
Find(s, lit, i) ==
    LET hits == {j \in i..Len(s) : StartsAt(s, j, lit)}
    IN IF hits = {} THEN 0 ELSE Min(hits)

Contains(s, lit) == Find(s, lit, 1) # 0

\* the character classes of the patterns: \s, \w, \S, `.`, [^)] and ` `
InClass(class, c) ==
    CASE class = "\\s" -> IsSpace(c)
      [] class = "\\w" -> IsWord(c)
      [] class = "\\S" -> ~IsSpace(c)
      [] class = "." -> c # NL
      [] class = "[^)]" -> c # ")"
      [] class = " " -> c = " "

RECURSIVE RunEnd(_, _, _)
\* the end of the longest run of characters of a class that starts at i
\* (i - 1 when the run is empty): a greedy \s*, \w*, \S*
RunEnd(s, i, class) ==
    IF i >= 1 /\ i <= Len(s) /\ InClass(class, Ch(s, i))
    THEN RunEnd(s, i + 1, class)
    ELSE i - 1

\* str.strip()
Strip(s) ==
    LET keep == {j \in 1..Len(s) : ~IsSpace(Ch(s, j))}
    IN IF keep = {} THEN "" ELSE SubSeq(s, Min(keep), Max(keep))

\* str.lstrip(' ')
LStripSpaces(s) == From(s, RunEnd(s, 1, " ") + 1)

\* str.isdigit()
IsDigit(s) == Len(s) > 0 /\ \A j \in 1..Len(s) : Ch(s, j) \in Digits

\* str.replace(old, new, 1) for a one-character old
ReplaceFirst(s, old, new) ==
    LET a == Find(s, old, 1)
    IN IF a = 0 THEN s ELSE SubSeq(s, 1, a - 1) \o new \o From(s, a + 1)

\* str.split(sep) for a one-character sep
Split(s, sep) ==
    LET f[i \in 1..(Len(s) + 1)] ==
          LET a == Find(s, sep, i)
          IN IF a = 0 THEN <<From(s, i)>>
             ELSE <<SubSeq(s, i, a - 1)>> \o f[a + 1]
    IN f[1]

\* str.split(sep, 1)
SplitOnce(s, sep) ==
    LET a == Find(s, sep, 1)
    IN IF a = 0 THEN <<s>> ELSE <<SubSeq(s, 1, a - 1), From(s, a + 1)>>

\* sep.join(parts)
Join(parts, sep) ==
    LET f[i \in 1..(Len(parts) + 1)] ==
          IF i > Len(parts) THEN ""
          ELSE IF i = Len(parts) THEN parts[i]
          ELSE parts[i] \o sep \o f[i + 1]
    IN f[1]

\* str.replace(old, new) for a one-character old
ReplaceAll(s, old, new) == Join(Split(s, old), new)

\* ' ' * n (the empty string for n <= 0)
Spaces(n) ==
    LET f[k \in 0..(IF n > 0 THEN n ELSE 0)] ==
          IF k = 0 THEN "" ELSE " " \o f[k - 1]
    IN f[IF n > 0 THEN n ELSE 0]

\* str.upper() over the letters
UpperOf(s) ==
    LET up(c) == IF c \in Range(Lower)
                 THEN Upper[CHOOSE k \in 1..26 : Lower[k] = c] ELSE c
        f[i \in 1..(Len(s) + 1)] ==
          IF i > Len(s) THEN "" ELSE up(Ch(s, i)) \o f[i + 1]
    IN f[1]

(***************************************************************************)
(* The re module: a match is [ok, end, g1, g2, g3]; sub and finditer scan  *)
(* left to right and resume after each match.                              *)
(***************************************************************************)
NoMatch == [ok |-> FALSE, end |-> 0, g1 |-> "", g2 |-> "", g3 |-> "", has3 |-> FALSE]

Hit(e, a, b, c, h) == [ok |-> TRUE, end |-> e, g1 |-> a, g2 |-> b, g3 |-> c, has3 |-> h]

\* ^ and $ under re.MULTILINE
LineStart(s, i) == i = 1 \/ Ch(s, i - 1) = NL

LineEnd(s, i) == i = Len(s) + 1 \/ Ch(s, i) = NL

\* A greedy \s+ or \s* that starts at a and may give characters back to a
\* following `.`: the start of what follows, tried from the longest run
\* down to `least` characters; 0 when no start has a `.` character under it.
AfterSpaces(s, a, least) ==
    LET Longest(ok) == IF ok = {} THEN 0 ELSE Max(ok)
    IN Longest({q \in (a + least)..(RunEnd(s, a, "\\s") + 1) :
                  q <= Len(s) /\ Ch(s, q) # NL})

(***************************************************************************)
(* __init__: the mapping tables.                                           *)
(***************************************************************************)
python_types_to_cpp ==
    [int |-> "int", float |-> "double", bool |-> "bool", str |-> "std::string",
     list |-> "std::vector", dict |-> "std::unordered_map",
     set |-> "std::unordered_set", tuple |-> "std::tuple", None |-> "nullptr"]

lib_imports ==
    [numpy |-> <<"Eigen/Dense", "Eigen/Sparse", "reservoircpp/numpy.hpp">>,
     scipy |-> <<"reservoircpp/scipy.hpp">>,
     random |-> <<"random">>,
     logging |-> <<"iostream", "reservoircpp/logging.hpp">>,
     os |-> <<"filesystem">>,
     time |-> <<"chrono">>]

\* dict.get(key, default)
Get(table, key, default) == IF key \in DOMAIN table THEN table[key] ELSE default

(***************************************************************************)
(* preprocess_comments                                                     *)
(***************************************************************************)
\* r'"""(.*?)"""' and r"'''(.*?)'''" with re.DOTALL, for the quote q
DocstringMatch(s, i, q) ==
    IF ~StartsAt(s, i, q) THEN NoMatch
    ELSE LET b == Find(s, q, i + 3)
         IN IF b = 0 THEN NoMatch
            ELSE Hit(b + 2, SubSeq(s, i + 3, b - 1), "", "", FALSE)

docstring_double(s, i) == DocstringMatch(s, i, "\"\"\"")

docstring_single(s, i) == DocstringMatch(s, i, "'''")

\* r'/**\n\1\n*/'
DocComment(m) == "/**" \o NL \o m.g1 \o NL \o "*/"

\* the body of the loop over the lines
HashComment(line) ==
    IF Contains(line, "#")
    THEN LET comment_start == Find(line, "#", 1)
             code_part == SubSeq(line, 1, comment_start - 1)
             comment_part == From(line, comment_start + 1)
         IN code_part \o "// " \o comment_part
    ELSE line

\* (?:\s+as\s+(\S+))?$ tried at b: the alias and its end when the group and
\* the $ after it match
AsClause(s, b) ==
    LET Alias(r1, r2, r3) ==
          IF /\ r1 >= b
             /\ StartsAt(s, r1 + 1, "as")
             /\ r2 >= r1 + 3
             /\ r3 >= r2 + 1
             /\ LineEnd(s, r3 + 1)
          THEN Hit(r3, "", "", SubSeq(s, r2 + 1, r3), TRUE)
          ELSE NoMatch
        Gap(r1, r2) == Alias(r1, r2, RunEnd(s, r2 + 1, "\\S"))
        As(r1) == Gap(r1, RunEnd(s, r1 + 3, "\\s"))
    IN As(RunEnd(s, b, "\\s"))

\* import\s+(.+?)(?:\s+as\s+(\S+))?$ with `import` ending right before a:
\* the lazy group ends at the first e that lets the rest of the pattern match
ImportTail(s, a, module) ==
    LET Names(q, e, as) ==
          IF as.ok THEN Hit(as.end, module, SubSeq(s, q, e), as.g3, TRUE)
          ELSE Hit(e, module, SubSeq(s, q, e), "", FALSE)
        Shortest(q, e) == Names(q, e, AsClause(s, e + 1))
        Group(q, last) ==
          Shortest(q, Min({e \in q..last :
                             AsClause(s, e + 1).ok \/ LineEnd(s, e + 1)}))
        Start(q) == IF q = 0 THEN NoMatch ELSE Group(q, RunEnd(s, q, "."))
    IN Start(AfterSpaces(s, a, 1))

\* ^(?:from\s+(\S+)\s+)?import\s+(.+?)(?:\s+as\s+(\S+))?$ with re.MULTILINE
import_re(s, i) ==
    LET Either(withFrom, plain) == IF withFrom.ok THEN withFrom ELSE plain
        FromClause(r1, r2, r3) ==
          IF /\ StartsAt(s, i, "from")
             /\ r1 >= i + 4
             /\ r2 >= r1 + 1
             /\ r3 >= r2 + 1
             /\ StartsAt(s, r3 + 1, "import")
          THEN ImportTail(s, r3 + 7, SubSeq(s, r1 + 1, r2))
          ELSE NoMatch
        Module(r1, r2) == FromClause(r1, r2, RunEnd(s, r2 + 1, "\\s"))
        FromWord(r1) == Module(r1, RunEnd(s, r1 + 1, "\\S"))
    IN IF ~LineStart(s, i) THEN NoMatch
       ELSE Either(FromWord(RunEnd(s, i + 4, "\\s")),
                   IF StartsAt(s, i, "import") THEN ImportTail(s, i + 6, "")
                   ELSE NoMatch)

\* the body of the loop over the matches: what one match appends to imports
IncludesOf(match) ==
    LET module == match.g1
        names == Strip(match.g2)
        items == Split(names, ",")
        module_path == ReplaceAll(module, ".", "/")
    IN IF module \in DOMAIN lib_imports
       THEN [k \in 1..Len(lib_imports[module]) |->
               "#include <" \o lib_imports[module][k] \o ">"]
       ELSE IF module # ""
       THEN IF names = "*"
            THEN <<"#include \"reservoircpp/" \o module_path \o ".hpp\"">>
            ELSE [k \in 1..Len(items) |->
                    "#include \"reservoircpp/" \o module_path \o "/"
                        \o Strip(items[k]) \o ".hpp\""]
       ELSE [k \in 1..Len(items) |-> "#include \"" \o Strip(items[k]) \o ".hpp\""]

RECURSIVE Orders(_)
\* the lists that hold every element of S once
Orders(S) ==
    IF S = {} THEN {<<>>}
    ELSE UNION {{<<a>> \o rest : rest \in Orders(S \ {a})} : a \in S}

\* the list as it is: no duplicate removed
ListAsIs(list) == {list}

\* list(set(imports)): the iteration order of a set of strings is not fixed
ListOfSet(list) == Orders(Range(list))

\* (?:\s*->\s*(\w+))?\s*: tried at b: the end of the header and the return
\* type when there is one
ReturnClause(s, b) ==
    LET Colon(a1, a2, a3, a4) ==
          IF /\ StartsAt(s, a1 + 1, "->")
             /\ a3 >= a2 + 1
             /\ Ch(s, a4 + 1) = ":"
          THEN Hit(a4 + 1, "", "", SubSeq(s, a2 + 1, a3), TRUE)
          ELSE IF Ch(s, a1 + 1) = ":" THEN Hit(a1 + 1, "", "", "", FALSE)
          ELSE NoMatch
        Type(a1, a2, a3) == Colon(a1, a2, a3, RunEnd(s, a3 + 1, "\\s"))
        Arrow(a1, a2) == Type(a1, a2, RunEnd(s, a2 + 1, "\\w"))
        Gap(a1) == Arrow(a1, RunEnd(s, a1 + 3, "\\s"))
    IN Gap(RunEnd(s, b, "\\s"))

\* def\s+(\w+)\s*\((.*?)\)(?:\s*->\s*(\w+))?\s*: with re.DOTALL: the lazy
\* group ends at the first `)` that lets the rest of the pattern match
function_re(s, i) ==
    LET Header(r1, r2, r3, j, tail) ==
          Hit(tail.end, SubSeq(s, r1 + 1, r2), SubSeq(s, r3 + 2, j - 1),
              tail.g3, tail.has3)
        Close(r1, r2, r3, j) == Header(r1, r2, r3, j, ReturnClause(s, j + 1))
        Params(r1, r2, r3, closes) ==
          IF /\ StartsAt(s, i, "def")
             /\ r1 >= i + 3
             /\ r2 >= r1 + 1
             /\ Ch(s, r3 + 1) = "("
             /\ closes # {}
          THEN Close(r1, r2, r3, Min(closes))
          ELSE NoMatch
        Open(r1, r2, r3) ==
          Params(r1, r2, r3, {j \in (r3 + 2)..Len(s) :
                                Ch(s, j) = ")" /\ ReturnClause(s, j + 1).ok})
        Name(r1, r2) == Open(r1, r2, RunEnd(s, r2 + 1, "\\s"))
        Def(r1) == Name(r1, RunEnd(s, r1 + 1, "\\w"))
    IN Def(RunEnd(s, i + 3, "\\s"))

\* the type inferred from a default value or a right-hand side
LiteralType(value) ==
    IF IsDigit(value) THEN "int"
    ELSE IF IsDigit(ReplaceFirst(value, ".", "")) THEN "double"
    ELSE IF value = "True" \/ value = "False" THEN "bool"
    ELSE IF StartsAt(value, 1, "\"") \/ StartsAt(value, 1, "'") THEN "std::string"
    ELSE "auto"

\* str.lower() of True and False
LowerBool(value) ==
    IF value = "True" THEN "true" ELSE IF value = "False" THEN "false" ELSE value

\* One iteration of the loop over params.split(','): st is the closure's
\* locals [name, param_list]; `name` is the variable that holds the matched
\* function name, and the two split assignments write to it.
ParamStep(st, raw) ==
    LET param == Strip(raw)
        byEq == SplitOnce(param, "=")
        byColon == SplitOnce(param, ":")
    IN IF Contains(param, "=")
       THEN LET name == Strip(byEq[1])
                default == Strip(byEq[2])
                param_type == LiteralType(default)
                shown == IF param_type = "bool" THEN LowerBool(default) ELSE default
            IN [name |-> name,
                param_list |-> Append(st.param_list,
                                 param_type \o " " \o name \o " = " \o shown)]
       ELSE IF Contains(param, ":")
       THEN LET name == Strip(byColon[1])
                type_hint == Strip(byColon[2])
                cpp_type == Get(python_types_to_cpp, type_hint, "auto")
            IN [name |-> name,
                param_list |-> Append(st.param_list, cpp_type \o " " \o name)]
       ELSE [name |-> st.name,
             param_list |-> Append(st.param_list, "auto " \o param)]

transform_function(match) ==
    LET params == match.g2
        parts == IF params # "" THEN Split(params, ",") ELSE <<>>
        loop[k \in 0..Len(parts)] ==
          IF k = 0 THEN [name |-> match.g1, param_list |-> <<>>]
          ELSE ParamStep(loop[k - 1], parts[k])
        last == loop[Len(parts)]
        cpp_params == Join(last.param_list, ", ")
        cpp_return_type ==
          IF match.has3 THEN Get(python_types_to_cpp, match.g3, "auto") ELSE "auto"
    IN cpp_return_type \o " " \o last.name \o "(" \o cpp_params \o ") {"

\* class\s+(\w+)(?:\s*\(([^)]*)\))?\s*:
class_re(s, i) ==
    LET Colon(r1, r2, r3, b1, r4) ==
          IF ~(StartsAt(s, i, "class") /\ r1 >= i + 5 /\ r2 >= r1 + 1)
          THEN NoMatch
          ELSE IF /\ Ch(s, r3 + 1) = "("
                  /\ Ch(s, b1 + 1) = ")"
                  /\ Ch(s, r4 + 1) = ":"
          THEN Hit(r4 + 1, SubSeq(s, r1 + 1, r2), SubSeq(s, r3 + 2, b1), "", FALSE)
          ELSE IF Ch(s, r3 + 1) = ":"
          THEN Hit(r3 + 1, SubSeq(s, r1 + 1, r2), "", "", FALSE)
          ELSE NoMatch
        Bases(r1, r2, r3, b1) == Colon(r1, r2, r3, b1, RunEnd(s, b1 + 2, "\\s"))
        Open(r1, r2, r3) == Bases(r1, r2, r3, RunEnd(s, r3 + 2, "[^)]"))
        Name(r1, r2) == Open(r1, r2, RunEnd(s, r2 + 1, "\\s"))
        Class(r1) == Name(r1, RunEnd(s, r1 + 1, "\\w"))
    IN Class(RunEnd(s, i + 5, "\\s"))

transform_class(match) ==
    LET class_name == match.g1
        inheritance == match.g2
        parts == IF inheritance # "" THEN Split(inheritance, ",") ELSE <<>>
        collect[k \in 0..Len(parts)] ==
          IF k = 0 THEN <<>>
          ELSE IF Strip(parts[k]) # ""
          THEN Append(collect[k - 1], "public " \o Strip(parts[k]))
          ELSE collect[k - 1]
        base_classes == collect[Len(parts)]
        inheritance_str ==
          IF base_classes # <<>> THEN ": " \o Join(base_classes, ", ") ELSE ""
    IN "class " \o class_name \o inheritance_str \o " {"

\* ^(\s+)def\s+(\w+) with re.MULTILINE
method_re(s, i) ==
    LET Name(r1, r2, r3) ==
          IF /\ LineStart(s, i)
             /\ r1 >= i
             /\ StartsAt(s, r1 + 1, "def")
             /\ r2 >= r1 + 4
             /\ r3 >= r2 + 1
          THEN Hit(r3, SubSeq(s, i, r1), SubSeq(s, r2 + 1, r3), "", FALSE)
          ELSE NoMatch
        Def(r1, r2) == Name(r1, r2, RunEnd(s, r2 + 1, "\\w"))
        Indent(r1) == Def(r1, RunEnd(s, r1 + 4, "\\s"))
    IN Indent(RunEnd(s, i, "\\s"))

\* r'\1public:\n\1auto \2'
PublicMethod(m) == m.g1 \o "public:" \o NL \o m.g1 \o "auto " \o m.g2

\* (\s*)(\w+)\s*=\s*(.+)$ with re.MULTILINE
assignment_re(s, i) ==
    LET Value(r1, r2, q, e) ==
          Hit(e, SubSeq(s, i, r1), SubSeq(s, r1 + 1, r2), SubSeq(s, q, e), TRUE)
        Equals(r1, r2, r3, q) ==
          IF /\ r2 >= r1 + 1
             /\ Ch(s, r3 + 1) = "="
             /\ q # 0
          THEN Value(r1, r2, q, RunEnd(s, q, "."))
          ELSE NoMatch
        Name(r1, r2, r3) == Equals(r1, r2, r3, AfterSpaces(s, r3 + 2, 0))
        Indent(r1, r2) == Name(r1, r2, RunEnd(s, r2 + 1, "\\s"))
        Start(r1) == Indent(r1, RunEnd(s, r1 + 1, "\\w"))
    IN Start(RunEnd(s, i, "\\s"))

infer_type(v) ==
    LET value == Strip(v)
    IN IF LiteralType(value) # "auto" THEN LiteralType(value)
       ELSE IF StartsAt(value, 1, "[") THEN "auto"
       ELSE IF StartsAt(value, 1, "{") THEN "auto"
       ELSE IF StartsAt(value, 1, "(") THEN "auto"
       ELSE "auto"

transform_assignment(match) ==
    LET indent == match.g1
        var_name == match.g2
        value == match.g3
        var_type == infer_type(value)
        shown == IF var_type = "bool" /\ (value = "True" \/ value = "False")
                 THEN LowerBool(value) ELSE value
    IN IF StartsAt(var_name, 1, "self.")
       THEN indent \o var_name \o " = " \o value
       ELSE indent \o var_type \o " " \o var_name \o " = " \o shown

\* <keyword>\s+(.*?): for the keywords if, elif and while.  The condition
\* runs to the first colon of the line it starts on; giving back part of
\* the \s+ cannot find a colon that the longest run does not find.
KeywordHeader(s, i, keyword) ==
    LET Condition(r1, colon) ==
          IF /\ StartsAt(s, i, keyword)
             /\ r1 >= i + Len(keyword)
             /\ colon # 0
             /\ RunEnd(s, r1 + 1, ".") >= colon
          THEN Hit(colon, SubSeq(s, r1 + 1, colon - 1), "", "", FALSE)
          ELSE NoMatch
        Keyword(r1) == Condition(r1, Find(s, ":", r1 + 1))
    IN Keyword(RunEnd(s, i + Len(keyword), "\\s"))

\* if\s+(.*?):
if_re(s, i) == KeywordHeader(s, i, "if")

\* elif\s+(.*?):
elif_re(s, i) == KeywordHeader(s, i, "elif")

\* else:
else_re(s, i) ==
    IF StartsAt(s, i, "else:") THEN Hit(i + 4, "", "", "", FALSE) ELSE NoMatch

\* while\s+(.*?):
while_re(s, i) == KeywordHeader(s, i, "while")

\* \s+in\s+(.*?): tried at b
InClause(s, b) ==
    LET Iterable(w1, w2, colon) ==
          IF /\ w1 >= b
             /\ StartsAt(s, w1 + 1, "in")
             /\ w2 >= w1 + 3
             /\ colon # 0
             /\ RunEnd(s, w2 + 1, ".") >= colon
          THEN Hit(colon, "", SubSeq(s, w2 + 1, colon - 1), "", FALSE)
          ELSE NoMatch
        In(w1, w2) == Iterable(w1, w2, Find(s, ":", w2 + 1))
        Gap(w1) == In(w1, RunEnd(s, w1 + 3, "\\s"))
    IN Gap(RunEnd(s, b, "\\s"))

\* for\s+(.*?)\s+in\s+(.*?): the first \s+ is tried from its longest run
\* down, and for each the lazy first group from its shortest up
for_re(s, i) ==
    LET lens(q) == {k \in 0..(RunEnd(s, q, ".") - q + 1) : InClause(s, q + k).ok}
        Target(q, k, tail) ==
          Hit(tail.end, SubSeq(s, q, q + k - 1), tail.g2, "", FALSE)
        Shortest(q, k) == Target(q, k, InClause(s, q + k))
        Longest(q) == Shortest(q, Min(lens(q)))
        For(r, starts) ==
          IF StartsAt(s, i, "for") /\ r >= i + 3 /\ starts # {}
          THEN Longest(Max(starts))
          ELSE NoMatch
        Start(r) == For(r, {q \in (i + 4)..(r + 1) : lens(q) # {}})
    IN Start(RunEnd(s, i + 3, "\\s"))

\* r'if (\1) {'
IfHeader(m) == "if (" \o m.g1 \o ") {"

\* r'} else if (\1) {'
ElifHeader(m) == "} else if (" \o m.g1 \o ") {"

\* r'} else {'
ElseHeader(m) == "} else {"

\* r'for (auto \1 : \2) {'
ForHeader(m) == "for (auto " \o m.g1 \o " : " \o m.g2 \o ") {"

\* r'while (\1) {'
WhileHeader(m) == "while (" \o m.g1 \o ") {"

(***************************************************************************)
(* transform_control_structures: closing the blocks                        *)
(***************************************************************************)
\* the 4 of `// 4`, `current_indent - 4` and `current_indent -= 4`
IndentUnit == 4

\* ^( *)def with re.MULTILINE
indentation_pattern(s, i) ==
    LET r == RunEnd(s, i, " ")
    IN IF LineStart(s, i) /\ StartsAt(s, r + 1, "def")
       THEN Hit(r + 3, SubSeq(s, i, r), "", "", FALSE)
       ELSE NoMatch

\* len(line) - len(line.lstrip(' '))
leading_spaces(line) == Len(line) - Len(LStripSpaces(line))

\* the integer division of Python
levels_to_close(cur, leading) == (cur - leading) \div IndentUnit

\* what the `if leading_spaces < current_indent` block appends to new_lines
ClosersBefore(cur, leading) ==
    IF leading < cur
    THEN [k \in 1..levels_to_close(cur, leading) |->
            Spaces(cur - IndentUnit) \o "}"]
    ELSE <<>>

\* one iteration of `for line in lines` on the locals st
BlockStep(st, line) ==
    [new_lines |-> st.new_lines
                     \o ClosersBefore(st.current_indent, leading_spaces(line))
                     \o <<line>>,
     current_indent |-> leading_spaces(line)]

\* one iteration of `while current_indent > 0` on the locals st
FlushStep(st) ==
    [new_lines |-> Append(st.new_lines,
                          Spaces(st.current_indent - IndentUnit) \o "}"),
     current_indent |-> st.current_indent - IndentUnit]

RECURSIVE Flush(_)
\* the loop `while current_indent > 0` on the locals st
Flush(st) == IF st.current_indent > 0 THEN Flush(FlushStep(st)) ELSE st

(***************************************************************************)
(* re.sub and re.finditer.  ms[j] is pattern.match(s, j) for every         *)
(* position j of the text; the scan runs left to right and resumes after   *)
(* each match.  None of the patterns matches the empty string.             *)
(***************************************************************************)
RECURSIVE Scan(_, _)
\* the positions where the scan from i finds its matches
Scan(ms, i) ==
    LET rest == {j \in DOMAIN ms : j >= i /\ ms[j].ok}
    IN IF rest = {} THEN <<>>
       ELSE <<Min(rest)>> \o Scan(ms, ms[Min(rest)].end + 1)

\* list(pattern.finditer(s))
ReFindAll(ms) ==
    LET at == Scan(ms, 1)
    IN [k \in 1..Len(at) |-> ms[at[k]]]

\* the text between the matches at[k - 1] and at[k], then the replacement of
\* at[k]; after the last match, the rest of the text
Piece(s, ms, repl, at, k) ==
    LET a == IF k = 1 THEN 1 ELSE ms[at[k - 1]].end + 1
    IN IF k > Len(at) THEN From(s, a)
       ELSE SubSeq(s, a, at[k] - 1) \o repl[at[k]]

\* pattern.sub(repl, s): repl[j] is the replacement of the match at j
ReSub(s, ms, repl) ==
    LET at == Scan(ms, 1)
    IN Join([k \in 1..(Len(at) + 1) |-> Piece(s, ms, repl, at, k)], "")

\* re.sub(r'"""(.*?)"""', r'/**\n\1\n*/', code, flags=re.DOTALL)
SubDocstringDouble(c) ==
    LET ms == [j \in 1..Len(c) |-> docstring_double(c, j)]
    IN ReSub(c, ms, [j \in DOMAIN ms |-> DocComment(ms[j])])

\* re.sub(r"'''(.*?)'''", r'/**\n\1\n*/', code, flags=re.DOTALL)
SubDocstringSingle(c) ==
    LET ms == [j \in 1..Len(c) |-> docstring_single(c, j)]
    IN ReSub(c, ms, [j \in DOMAIN ms |-> DocComment(ms[j])])

\* the loop over code.split('\n') and the join
HashComments(c) ==
    LET ls == Split(c, NL)
    IN Join([k \in 1..Len(ls) |-> HashComment(ls[k])], NL)

preprocess_comments(c) == HashComments(SubDocstringSingle(SubDocstringDouble(c)))

\* import_re.finditer(code)
ImportMatches(c) == ReFindAll([j \in 1..Len(c) |-> import_re(c, j)])

RECURSIVE Extend(_, _)
\* imports.append / imports.extend over the matches ms
Extend(ms, k) == IF k = 0 THEN <<>> ELSE Extend(ms, k - 1) \o IncludesOf(ms[k])

\* imports as the loop over import_re.finditer(code) leaves it
CollectImports(c) ==
    LET ms == ImportMatches(c)
    IN Extend(ms, Len(ms))

\* import_re.sub('', code)
SubImport(c) ==
    ReSub(c, [j \in 1..Len(c) |-> import_re(c, j)], [j \in 1..Len(c) |-> ""])

\* the include block transform_imports puts on top when list(set(imports))
\* is `order`
Includes(order) ==
    Join(order, NL) \o NL \o NL
        \o "using namespace reservoircpp;" \o NL
        \o "using namespace Eigen;" \o NL \o NL

\* what transform_imports returns when list(set(imports)) is `order`
WithIncludes(c, order) == Includes(order) \o SubImport(c)

\* function_re.finditer(code): the headers function_re.sub rewrites
FunctionMatches(c) == ReFindAll([j \in 1..Len(c) |-> function_re(c, j)])

transform_functions(c) ==
    LET ms == [j \in 1..Len(c) |-> function_re(c, j)]
    IN ReSub(c, ms, [j \in DOMAIN ms |-> transform_function(ms[j])])

\* class_re.finditer(code): the headers class_re.sub rewrites
ClassMatches(c) == ReFindAll([j \in 1..Len(c) |-> class_re(c, j)])

\* class_re.sub(transform_class, code)
SubClass(c) ==
    LET ms == [j \in 1..Len(c) |-> class_re(c, j)]
    IN ReSub(c, ms, [j \in DOMAIN ms |-> transform_class(ms[j])])

\* method_re.sub(r'\1public:\n\1auto \2', code)
SubMethod(c) ==
    LET ms == [j \in 1..Len(c) |-> method_re(c, j)]
    IN ReSub(c, ms, [j \in DOMAIN ms |-> PublicMethod(ms[j])])

transform_classes(c) == SubMethod(SubClass(c))

transform_variables(c) ==
    LET ms == [j \in 1..Len(c) |-> assignment_re(c, j)]
    IN ReSub(c, ms, [j \in DOMAIN ms |-> transform_assignment(ms[j])])

\* the five re.sub calls, in the order the method makes them
SubIf(c) ==
    LET ms == [j \in 1..Len(c) |-> if_re(c, j)]
    IN ReSub(c, ms, [j \in DOMAIN ms |-> IfHeader(ms[j])])

SubElif(c) ==
    LET ms == [j \in 1..Len(c) |-> elif_re(c, j)]
    IN ReSub(c, ms, [j \in DOMAIN ms |-> ElifHeader(ms[j])])

SubElse(c) ==
    LET ms == [j \in 1..Len(c) |-> else_re(c, j)]
    IN ReSub(c, ms, [j \in DOMAIN ms |-> ElseHeader(ms[j])])

SubFor(c) ==
    LET ms == [j \in 1..Len(c) |-> for_re(c, j)]
    IN ReSub(c, ms, [j \in DOMAIN ms |-> ForHeader(ms[j])])

SubWhile(c) ==
    LET ms == [j \in 1..Len(c) |-> while_re(c, j)]
    IN ReSub(c, ms, [j \in DOMAIN ms |-> WhileHeader(ms[j])])

ControlHeaders(c) == SubWhile(SubFor(SubElse(SubElif(SubIf(c)))))

\* how many matches each of the five substitutions rewrites, given the text
\* each of them is handed
HeaderCount(c0, c1, c2, c3, c4) ==
    Len(Scan([j \in 1..Len(c0) |-> if_re(c0, j)], 1))
  + Len(Scan([j \in 1..Len(c1) |-> elif_re(c1, j)], 1))
  + Len(Scan([j \in 1..Len(c2) |-> else_re(c2, j)], 1))
  + Len(Scan([j \in 1..Len(c3) |-> for_re(c3, j)], 1))
  + Len(Scan([j \in 1..Len(c4) |-> while_re(c4, j)], 1))

\* how many headers the five substitutions rewrite with a trailing brace
ControlHeaderCount(c) ==
    LET c1 == SubIf(c)
        c2 == SubElif(c1)
        c3 == SubElse(c2)
        c4 == SubFor(c3)
    IN HeaderCount(c, c1, c2, c3, c4)

\* [len(m.group(1)) for m in indentation_pattern.finditer(code)]
indentations(c) ==
    LET ms == ReFindAll([j \in 1..Len(c) |-> indentation_pattern(c, j)])
    IN [k \in 1..Len(ms) |-> Len(ms[k].g1)]

RECURSIVE Loop(_, _)
\* the locals after the first k iterations of `for line in lines`
Loop(ls, k) ==
    IF k = 0 THEN [new_lines |-> <<>>, current_indent |-> 0]
    ELSE BlockStep(Loop(ls, k - 1), ls[k])

\* the method from the search for `def` to its return
BlockSynthesis(c) ==
    LET ls == Split(c, NL)
    IN IF indentations(c) # <<>>
       THEN Join(Flush(Loop(ls, Len(ls))).new_lines, NL)
       ELSE c

transform_control_structures(c) == BlockSynthesis(ControlHeaders(c))

(***************************************************************************)
(* add_header_guards                                                       *)
(***************************************************************************)
\* os.path.basename
Basename(path) ==
    LET slashes == {j \in 1..Len(path) : Ch(path, j) = "/"}
    IN IF slashes = {} THEN path ELSE From(path, Max(slashes) + 1)

\* os.path.splitext(name)[0]: a dot that only leading dots precede starts
\* no extension
SplitextRoot(name) ==
    LET dots == {j \in 1..Len(name) :
                   Ch(name, j) = "." /\ \E k \in 1..(j - 1) : Ch(name, k) # "."}
    IN IF dots = {} THEN name ELSE SubSeq(name, 1, Max(dots) - 1)

add_header_guards(c, fname) ==
    LET header_name == UpperOf(SplitextRoot(Basename(fname))) \o "_HPP"
    IN "#ifndef RESERVOIRCPP_" \o header_name \o NL
         \o "#define RESERVOIRCPP_" \o header_name \o NL \o NL
         \o c \o NL \o NL
         \o "#endif // RESERVOIRCPP_" \o header_name \o NL

(***************************************************************************)
(* The calls the model makes: the method called and the text handed to it. *)
(***************************************************************************)
ScenarioA == "def add(a: int, b: int) -> int:\n    return a + b\n"

ScenarioB == "x = 5\ny = \"hi\"\nif x > 0:\n    print(y)\n"

ScenarioC == "import numpy\n"

ScenarioD == ""

PipelinePool ==
    {"def add(a: int, b: int) -> int:", "    return a + b", "if x > 0:",
     "    deflate(x)", "x = 5"}

BlockPool ==
    {"def f():", "    if a:", "        g()", "    h()", "", "  k()", "elif b:"}

ImportPool ==
    {"import numpy", "from numpy import array", "from numpy import zeros as z",
     "from scipy import linalg", "import os, sys", "from a.b import c"}

FunctionPool ==
    {"def add(a: int, b: int) -> int:", "def area(r: float, scale=2):",
     "def run(self, flag=True, name='x') -> None:", "def f(x, y):",
     "def g() -> str:", "    return x"}

\* the units of 1..n lines drawn from pool
UnitsOf(pool, n) ==
    {Join(ls, NL) : ls \in UNION {[1..k -> pool] : k \in 1..n}}

Entries ==
    {"transform", "transform_imports", "transform_functions",
     "transform_control_structures"}

Units(e) ==
    CASE e = "transform" ->
           {ScenarioA, ScenarioB, ScenarioC, ScenarioD} \cup UnitsOf(PipelinePool, MaxLines)
      [] e = "transform_imports" -> {ScenarioC} \cup UnitsOf(ImportPool, MaxImports)
      [] e = "transform_functions" -> {ScenarioA} \cup UnitsOf(FunctionPool, MaxDefs)
      [] e = "transform_control_structures" -> UnitsOf(BlockPool, MaxBlockLines)

Filenames(e) == IF e = "transform" THEN {"out.cpp", "include/out.hpp"} ELSE {""}

(***************************************************************************)
(* transform: the order of the calls                                       *)
(***************************************************************************)
\* the order C6 states, as steps: the control-flow rewrite before the
\* variable bindings
AfterVariablesLast(pass) ==
    CASE pass = "preprocess_comments" -> "transform_imports"
      [] pass = "transform_imports" -> "transform_functions"
      [] pass = "transform_functions" -> "transform_classes"
      [] pass = "transform_classes" -> "transform_control_structures"
      [] pass = "transform_control_structures" -> "transform_variables"
      [] pass = "transform_variables" -> "add_header_guards"

\* the step that follows a pass inside transform
After(pass) ==
    CASE pass = "preprocess_comments" -> "transform_imports"
      [] pass = "transform_imports" -> "transform_functions"
      [] pass = "transform_functions" -> "transform_classes"
      [] pass = "transform_classes" -> "transform_variables"
      [] pass = "transform_variables" -> "transform_control_structures"
      [] pass = "transform_control_structures" -> "add_header_guards"

\* where a pass returns to: into transform, or to the caller
Return(pass) == IF entry = "transform" THEN After(pass) ELSE "done"

\* a call of the method e: the state when its body starts
Call(e) ==
    /\ entry = e
    /\ source \in Units(e)
    /\ filename \in Filenames(e)
    /\ code = source
    /\ pc = e
    /\ appended = <<>>
    /\ imports = <<>>
    /\ opened = 0
    /\ lines = <<>>
    /\ idx = 0
    /\ new_lines = <<>>
    /\ current_indent = 0
    /\ passes = <<>>

Init == \E e \in Entries : Call(e)

\* transform, up to the first pass: `if not code.strip(): return ""`
Transform ==
    /\ pc = "transform"
    /\ IF Strip(code) = ""
       THEN code' = "" /\ pc' = "done"
       ELSE code' = code /\ pc' = "preprocess_comments"
    /\ UNCHANGED <<entry, source, filename, appended, imports, opened, lines,
                   idx, new_lines, current_indent, passes>>

PreprocessComments ==
    /\ pc = "preprocess_comments"
    /\ code' = preprocess_comments(code)
    /\ pc' = Return("preprocess_comments")
    /\ passes' = Append(passes, "preprocess_comments")
    /\ UNCHANGED <<entry, source, filename, appended, imports, opened, lines,
                   idx, new_lines, current_indent>>

TransformImports ==
    /\ pc = "transform_imports"
    /\ appended' = CollectImports(code)
    /\ LET rest == SubImport(code)
       IN \E order \in ListOfSet(CollectImports(code)) :
            /\ imports' = order
            /\ code' = Includes(order) \o rest
    /\ pc' = Return("transform_imports")
    /\ passes' = Append(passes, "transform_imports")
    /\ UNCHANGED <<entry, source, filename, opened, lines, idx, new_lines,
                   current_indent>>

TransformFunctions ==
    /\ pc = "transform_functions"
    /\ code' = transform_functions(code)
    /\ opened' = opened + Len(FunctionMatches(code))
    /\ pc' = Return("transform_functions")
    /\ passes' = Append(passes, "transform_functions")
    /\ UNCHANGED <<entry, source, filename, appended, imports, lines, idx,
                   new_lines, current_indent>>

TransformClasses ==
    /\ pc = "transform_classes"
    /\ code' = transform_classes(code)
    /\ opened' = opened + Len(ClassMatches(code))
    /\ pc' = Return("transform_classes")
    /\ passes' = Append(passes, "transform_classes")
    /\ UNCHANGED <<entry, source, filename, appended, imports, lines, idx,
                   new_lines, current_indent>>

TransformVariables ==
    /\ pc = "transform_variables"
    /\ code' = transform_variables(code)
    /\ pc' = Return("transform_variables")
    /\ passes' = Append(passes, "transform_variables")
    /\ UNCHANGED <<entry, source, filename, appended, imports, opened, lines,
                   idx, new_lines, current_indent>>

\* transform_control_structures, the five re.sub calls
RewriteHeaders ==
    /\ pc = "transform_control_structures"
    /\ code' = ControlHeaders(code)
    /\ opened' = opened + ControlHeaderCount(code)
    /\ pc' = "block_synthesis"
    /\ passes' = Append(passes, "control_headers")
    /\ UNCHANGED <<entry, source, filename, appended, imports, lines, idx,
                   new_lines, current_indent>>

\* `if indentations:` taken: the locals of the loop are set up
BlockStart ==
    /\ pc = "block_synthesis"
    /\ indentations(code) # <<>>
    /\ lines' = Split(code, NL)
    /\ new_lines' = <<>>
    /\ current_indent' = 0
    /\ idx' = 1
    /\ pc' = "block_loop"
    /\ UNCHANGED <<entry, source, filename, code, appended, imports, opened, passes>>

\* `if indentations:` not taken: the method returns the code as it is
BlockSkip ==
    /\ pc = "block_synthesis"
    /\ indentations(code) = <<>>
    /\ pc' = Return("transform_control_structures")
    /\ passes' = Append(passes, "block_synthesis")
    /\ UNCHANGED <<entry, source, filename, code, appended, imports, opened,
                   lines, idx, new_lines, current_indent>>

\* one iteration of `for line in lines`
BlockLine ==
    /\ pc = "block_loop"
    /\ idx <= Len(lines)
    /\ LET st == BlockStep([new_lines |-> new_lines,
                            current_indent |-> current_indent], lines[idx])
       IN /\ new_lines' = st.new_lines
          /\ current_indent' = st.current_indent
    /\ idx' = idx + 1
    /\ UNCHANGED <<entry, source, filename, pc, code, appended, imports, opened,
                   lines, passes>>

\* one iteration of `while current_indent > 0`
BlockFlush ==
    /\ pc = "block_loop"
    /\ idx > Len(lines)
    /\ current_indent > 0
    /\ LET st == FlushStep([new_lines |-> new_lines,
                            current_indent |-> current_indent])
       IN /\ new_lines' = st.new_lines
          /\ current_indent' = st.current_indent
    /\ UNCHANGED <<entry, source, filename, pc, code, appended, imports, opened,
                   lines, idx, passes>>

\* `code = '\n'.join(new_lines)` and the return
BlockJoin ==
    /\ pc = "block_loop"
    /\ idx > Len(lines)
    /\ ~(current_indent > 0)
    /\ code' = Join(new_lines, NL)
    /\ pc' = Return("transform_control_structures")
    /\ passes' = Append(passes, "block_synthesis")
    /\ UNCHANGED <<entry, source, filename, appended, imports, opened, lines,
                   idx, new_lines, current_indent>>

\* transform, after the last pass: the header guards of a .hpp, the return
Finish ==
    /\ pc = "add_header_guards"
    /\ IF EndsWith(filename, ".hpp")
       THEN /\ code' = add_header_guards(code, filename)
            /\ passes' = Append(passes, "add_header_guards")
       ELSE UNCHANGED <<code, passes>>
    /\ pc' = "done"
    /\ UNCHANGED <<entry, source, filename, appended, imports, opened, lines,
                   idx, new_lines, current_indent>>

Next ==
    \/ Transform
    \/ PreprocessComments
    \/ TransformImports
    \/ TransformFunctions
    \/ TransformClasses
    \/ TransformVariables
    \/ RewriteHeaders
    \/ BlockStart
    \/ BlockSkip
    \/ BlockLine
    \/ BlockFlush
    \/ BlockJoin
    \/ Finish

Spec == Init /\ [][Next]_vars

\* the calls of transform alone
SpecTransform == Call("transform") /\ [][Next]_vars

\* the calls of transform_imports alone
SpecImports == Call("transform_imports") /\ [][TransformImports]_vars

(***************************************************************************)
(* The properties checked                                                  *)
(***************************************************************************)
\* the closing-delimiter lines the two loops of the block synthesis inserted
Closers == Len(new_lines) - Len(lines)

\* the block synthesis ran and has returned
SynthesisDone == lines # <<>> /\ pc # "block_loop"

\* a line that opens a block: a header of the unit, or a rewritten one
OpensBlock(line) == EndsWith(line, ":") \/ EndsWith(line, "{")

\* The lines ls are indented by multiples of IndentUnit spaces and hold no
\* tab, the first line is not indented, and a line is indented farther than
\* the line before it only by one unit and only under a line that opens a
\* block.
Nested(ls) ==
    /\ Len(ls) > 0
    /\ \A k \in DOMAIN ls :
         /\ ~Contains(ls[k], "\t")
         /\ leading_spaces(ls[k]) % IndentUnit = 0
    /\ leading_spaces(ls[1]) = 0
    /\ \A k \in 2..Len(ls) :
         leading_spaces(ls[k]) > leading_spaces(ls[k - 1]) =>
            /\ OpensBlock(ls[k - 1])
            /\ leading_spaces(ls[k]) = leading_spaces(ls[k - 1]) + IndentUnit

\* The lines ls are indented by multiples of IndentUnit spaces and hold no
\* tab, the first line is not indented, a line is indented farther than the
\* line before it only by one unit and only under a header, and every header
\* has a body.
Disciplined(ls) ==
    /\ Nested(ls)
    /\ \A k \in DOMAIN ls :
         EndsWith(ls[k], ":") =>
            /\ k < Len(ls)
            /\ leading_spaces(ls[k + 1]) = leading_spaces(ls[k]) + IndentUnit

\* C1: after the full transform of a unit whose lines are indented by
\* multiples of four spaces under their headers, without tabs, the block
\* synthesis has inserted as many closing-delimiter lines as the earlier
\* rewrites emitted block-opening headers.
C1_DelimiterBalance ==
    (entry = "transform" /\ pc = "done" /\ Disciplined(Split(source, NL)))
        => Closers = opened

\* C2: when the block synthesis finishes, whatever the widths of the lines,
\* current_indent is 0, and a last line that is indented is followed by a
\* closing delimiter.
C2_EndOfUnitFlush ==
    SynthesisDone =>
        /\ current_indent = 0
        /\ leading_spaces(lines[Len(lines)]) > 0 =>
             Strip(new_lines[Len(new_lines)]) = "}"

\* the type and the name of an emitted header `<type> <name>(<params>) {`
HeaderType(h) == SubSeq(h, 1, Find(h, " ", 1) - 1)

HeaderName(h) == SubSeq(h, Find(h, " ", 1) + 1, Find(h, "(", 1) - 1)

\* the header line `out` declares the annotated parameter `raw` (name: hint)
\* with the type the table gives the hint
TypedThroughTable(out, raw) ==
    LET p == SplitOnce(Strip(raw), ":")
    IN Contains(out, Get(python_types_to_cpp, Strip(p[2]), "auto")
                       \o " " \o Strip(p[1]))

\* what C3 asks of the line `out` emitted for the header line `line`
DeclaredHeader(line, out) ==
    LET m == function_re(line, 1)
    IN m.ok =>
         /\ HeaderName(out) = m.g1
         /\ HeaderType(out) =
              (IF m.has3 THEN Get(python_types_to_cpp, m.g3, "auto") ELSE "auto")
         /\ EndsWith(out, ") {")
         /\ \A raw \in Range(Split(m.g2, ",")) :
              (Contains(raw, ":") /\ ~Contains(raw, "=")) => TypedThroughTable(out, raw)

\* C3: transform_functions emits, for every header `def name(params) [-> T]:`,
\* the header `<returnType> name(<paramList>) {` with the declared name, the
\* annotated parameters and the return type typed through the table; the
\* header of add becomes `int add(int a, int b) {`.
C3_FunctionHeader ==
    (entry = "transform_functions" /\ pc = "done") =>
        /\ \A k \in DOMAIN Split(source, NL) :
             DeclaredHeader(Split(source, NL)[k], Split(code, NL)[k])
        /\ Split(source, NL)[1] = "def add(a: int, b: int) -> int:" =>
             Split(code, NL)[1] = "int add(int a, int b) {"

\* the lines Scenario B is to yield
ScenarioBLines ==
    <<"int x = 5", "std::string y = \"hi\"", "if (x > 0) {", "    print(y)", "}">>

\* C4: transform closes the block of a rewritten control-flow header also in
\* a unit without a function declaration; the lines x = 5, y = "hi",
\* if x > 0:, print(y) yield the two typed bindings, the rewritten header, the
\* body line and a closing delimiter line.
C4_ClosedWithoutFunction ==
    (entry = "transform" /\ pc = "done") =>
        /\ (FunctionMatches(source) = <<>> /\ opened > 0) => Closers > 0
        /\ source = ScenarioB =>
             \E k \in 1..Len(Split(code, NL)) :
                /\ k + 4 <= Len(Split(code, NL))
                /\ SubSeq(Split(code, NL), k, k + 4) = ScenarioBLines

\* the module an import statement names: the M of `from M import ...` and
\* the M of `import M`
NamedModule(m) == IF m.g1 # "" THEN m.g1 ELSE Strip(m.g2)

\* how often the directive d stands in the include list
Occurrences(d) == Cardinality({k \in DOMAIN imports : imports[k] = d})

\* C5: for every import statement, of either shape, whose module is a key of
\* lib_imports, transform_imports emits one #include <header> per mapped
\* header, removes the statement and puts the includes and the two using
\* directives on top; `import numpy` yields the three includes of numpy.
C5_MappedIncludes ==
    (entry = "transform_imports" /\ pc = "done") =>
        /\ \A k \in DOMAIN ImportMatches(source) :
             LET M == NamedModule(ImportMatches(source)[k])
             IN M \in DOMAIN lib_imports =>
                  \A h \in DOMAIN lib_imports[M] :
                     Occurrences("#include <" \o lib_imports[M][h] \o ">") = 1
        /\ StartsAt(code, 1, Includes(imports))
        /\ ImportMatches(From(code, Len(Includes(imports)) + 1)) = <<>>
        /\ source = ScenarioC =>
             Range(imports) = {"#include <Eigen/Dense>", "#include <Eigen/Sparse>",
                               "#include <reservoircpp/numpy.hpp>"}

IsPrefix(a, b) == Len(a) <= Len(b) /\ SubSeq(b, 1, Len(a)) = a

\* the order C6 states: the control-flow headers before the variables
ClaimedOrder ==
    <<"preprocess_comments", "transform_imports", "transform_functions",
      "transform_classes", "control_headers", "transform_variables",
      "block_synthesis", "add_header_guards">>

\* the order of the calls in transform: the variables before the headers
CallOrder ==
    <<"preprocess_comments", "transform_imports", "transform_functions",
      "transform_classes", "transform_variables", "control_headers",
      "block_synthesis", "add_header_guards">>

\* C6 as stated: transform runs the passes in the order comments, imports,
\* declarations, control-flow headers, variable bindings, block synthesis,
\* output formatting.
C6_ClaimedOrder == entry = "transform" => IsPrefix(passes, ClaimedOrder)

\* C6 amended: transform runs the passes in the order comments, imports,
\* functions, classes, variable bindings, control-flow headers, block
\* synthesis, header guards (of a .hpp only), each after the one before it
\* has returned; a unit that is not blank goes through all of them.
C6_CallOrder ==
    entry = "transform" =>
        /\ IsPrefix(passes, CallOrder)
        /\ (pc = "done" /\ Strip(source) # "") =>
             Len(passes) = (IF EndsWith(filename, ".hpp") THEN 8 ELSE 7)

\* transform has returned a .hpp unit in which it rewrote a header
C6_Witness ==
    /\ entry = "transform"
    /\ pc = "done"
    /\ passes = CallOrder
    /\ opened > 0

\* C7: once transform_imports has returned, every include directive the
\* import statements resolved to stands exactly once in the include list it
\* emitted, however many statements resolved to it.
C7_Deduplication ==
    "transform_imports" \in Range(passes) =>
        /\ \A d \in Range(appended) : Occurrences(d) = 1
        /\ Range(imports) = Range(appended)
        /\ entry = "transform_imports" => StartsAt(code, 1, Includes(imports))

\* transform_imports has returned and two statements resolved to the same
\* directive
C7_Witness ==
    /\ "transform_imports" \in Range(passes)
    /\ Len(appended) > Cardinality(Range(appended))

\* the loop `for line in lines` is about to process a blank line that sits
\* between two lines of the same indented block
BlankInsideBlock ==
    /\ pc = "block_loop"
    /\ idx > 1
    /\ idx < Len(lines)
    /\ lines[idx] = ""
    /\ Nested(SubSeq(lines, 1, idx - 1))
    /\ ~OpensBlock(lines[idx - 1])
    /\ leading_spaces(lines[idx - 1]) > 0
    /\ leading_spaces(lines[idx - 1]) = leading_spaces(lines[idx + 1])

\* C8: processing a blank line between two lines of the same indented block
\* emits no closing delimiter and leaves current_indent as it was.
C8_BlankLine ==
    [][(BlankInsideBlock /\ idx' = idx + 1) =>
          /\ current_indent' = current_indent
          /\ new_lines' = Append(new_lines, "")]_vars

\* the loop `for line in lines` is about to process a line with fewer leading
\* spaces than current_indent, in a unit nested by multiples of IndentUnit
Dedent ==
    /\ pc = "block_loop"
    /\ idx <= Len(lines)
    /\ Nested(SubSeq(lines, 1, idx))
    /\ leading_spaces(lines[idx]) < current_indent

\* the closers C9 states for a dedent from cur to leading: (cur - leading)
\* div 4 of them, the k-th indented by cur - 4 * k spaces
SteppedClosers(cur, leading) ==
    [k \in 1..levels_to_close(cur, leading) |-> Spaces(cur - IndentUnit * k) \o "}"]

\* C9: before a line with fewer leading spaces than current_indent, the loop
\* inserts (current_indent - leading) div 4 closing lines that step outwards
\* by four spaces each, the innermost at current_indent - 4.
C9_SteppedClosers ==
    [][(Dedent /\ idx' = idx + 1) =>
          new_lines' = new_lines
                         \o SteppedClosers(current_indent, leading_spaces(lines[idx]))
                         \o <<lines[idx]>>]_vars

\* what C10 asks of the line `out` the substitutions leave for `line`
ElseIfHeader(line, out) ==
    LET m == elif_re(line, leading_spaces(line) + 1)
    IN (m.ok /\ m.end = Len(line)) =>
         out = Spaces(leading_spaces(line)) \o "} else if (" \o m.g1 \o ") {"

\* C10: the substitutions rewrite every header line `elif <cond>:` to
\* `} else if (<cond>) {`, and never by the rule of the plain `if`.
C10_ElifHeader ==
    (entry = "transform_control_structures" /\ pc = "block_synthesis") =>
        \A k \in DOMAIN Split(source, NL) :
           ElseIfHeader(Split(source, NL)[k], Split(code, NL)[k])

====
